---------------------------- MODULE Spec2Model ----------------------------
(***************************************************************************)
(* A model of Projects/mathematica-migration/symbol_dependency.py:         *)
(*   - DependencyGraph (add_definition, find_undefined, trace_to_root,     *)
(*     count_dependents), specification Spec;                              *)
(*   - parse_notebook_symbols, specification SpecParse;                    *)
(*   - extract_definition, specification SpecExtract.                      *)
(* Symbol names are strings.  A document is a sequence of tokens, each     *)
(* token standing for the piece of notebook text given by TokText.         *)
(***************************************************************************)
EXTENDS Integers, Sequences, FiniteSets, TLC

(***************************************************************************)
(* Builtin vocabulary (symbol_dependency.py lines 21-42).                  *)
(***************************************************************************)
BUILTINS ==
    { "True", "False", "Null", "None", "Automatic", "All", "Infinity",
      "Pi", "E", "I",
      "Sin", "Cos", "Tan", "Exp", "Log", "Sqrt", "Abs", "Power",
      "Plus", "Times", "Divide", "Subtract",
      "List", "Table", "Map", "Apply", "Select", "Cases", "Range",
      "Part", "First", "Last", "Rest", "Most", "Length", "Flatten",
      "If", "Which", "Switch", "Do", "For", "While",
      "Module", "Block", "With", "Function",
      "Graphics", "Graphics3D", "Plot", "Plot3D", "Show",
      "RGBColor", "Hue", "GrayLevel", "Opacity",
      "Point", "Line", "Polygon", "Circle", "Disk", "Text",
      "NDSolve", "DSolve", "Solve", "FindRoot", "FindMinimum", "FindMaximum",
      "Print", "Export", "Import", "Clear", "Remove" }

(***************************************************************************)
(* Generic helpers on sequences.                                           *)
(***************************************************************************)
SeqRange(s) == { s[i] : i \in 1..Len(s) }

SeqsUpTo(S, n) == UNION { [1..k -> S] : k \in 0..n }

(* [d for d in seq if d not in excl] *)
RECURSIVE FilterOut(_, _)
FilterOut(s, excl) ==
    IF s = << >> THEN << >>
    ELSE IF Head(s) \in excl THEN FilterOut(Tail(s), excl)
         ELSE << Head(s) >> \o FilterOut(Tail(s), excl)

(***************************************************************************)
(* Bounds of the graph inputs.                                             *)
(***************************************************************************)
MaxDeps == 2

(* Symbols handed to add_definition. *)
GraphNames == { "a", "b" }

(* A symbol that is never defined. *)
NeverDefined == { "u" }

(* The cell numbers handed to add_definition. *)
CellNos == { 1 }

(* Names that may occur in a depends_on argument: the symbols, the symbol
   never defined and a builtin. *)
DepNames == GraphNames \cup NeverDefined \cup { "Sin" }

(* The symbols trace_to_root and count_dependents are asked about.  The
   graphs built are closed under renaming of GraphNames, so one of them
   stands for each. *)
QueryNames == { "a" } \cup NeverDefined

VARIABLES
    definitions,   \* DependencyGraph.definitions: symbol -> [cell, depends_on]
    keys,          \* insertion order of the definitions dict
    _undefined,    \* DependencyGraph._undefined
    pc,            \* "idle", or the query whose loop is running
    chain,         \* trace_to_root: chain
    visited,       \* trace_to_root: visited
    current,       \* trace_to_root: current
    dependents,    \* count_dependents: dependents
    stack,         \* count_dependents: the find_dependents frames [sym, i]
    result,        \* the last value returned by a query
    content,       \* parse_notebook_symbols: the document, a sequence of tokens
    cell_range,    \* parse_notebook_symbols: None or << start, end >>
    phase,         \* parse_notebook_symbols: the loop the function is in
    input_cells,   \* parse_notebook_symbols: << cell_idx, cell_start, cell_end >>
    all_definitions, \* parse_notebook_symbols: the collected definitions
    idx,           \* parse_notebook_symbols: enumerate index of the last loop
    symbols,       \* parse_notebook_symbols: the table returned
    expr,          \* extract_definition: the argument, a sequence of tokens
    extracted      \* extract_definition: the dict returned

gvars == << definitions, keys, _undefined, pc, chain, visited, current,
            dependents, stack, result >>

pvars == << content, cell_range, phase, input_cells, all_definitions, idx,
            symbols >>

evars == << expr, extracted >>

vars == << gvars, pvars, evars >>

(* The value of `result` when the last call returned nothing.  A value
   returned by a query is recorded with the object the returned reference
   points to (ref): a field of the graph, or an object the call created. *)
NoResult == [op |-> "none"]

(* Python's None, for a local that holds no symbol. *)
None == "<None>"

(***************************************************************************)
(* DependencyGraph()                                                       *)
(***************************************************************************)
GraphInit ==
    /\ definitions = << >>
    /\ keys = << >>
    /\ _undefined = {}
    /\ pc = "idle"
    /\ chain = << >>
    /\ visited = {}
    /\ current = None
    /\ dependents = {}
    /\ stack = << >>
    /\ result = NoResult

(***************************************************************************)
(* add_definition: the stored list drops the builtins; a dict assignment   *)
(* to an existing key keeps the key's place in the iteration order.        *)
(***************************************************************************)
StoredDeps(depends_on) == FilterOut(depends_on, BUILTINS)

DictSet(d, k, v) == [ x \in (DOMAIN d) \cup {k} |-> IF x = k THEN v ELSE d[x] ]

add_definition(symbol, cell, depends_on) ==
    /\ pc = "idle"
    /\ definitions' = DictSet(definitions, symbol,
                              [cell |-> cell, depends_on |-> StoredDeps(depends_on)])
    /\ keys' = IF symbol \in DOMAIN definitions THEN keys ELSE Append(keys, symbol)
    /\ result' = NoResult
    /\ UNCHANGED << _undefined, pc, chain, visited, current, dependents, stack,
                    pvars, evars >>

AddDefinition ==
    \E symbol \in GraphNames, cell \in CellNos,
       depends_on \in SeqsUpTo(DepNames, MaxDeps) :
        add_definition(symbol, cell, depends_on)

(***************************************************************************)
(* find_undefined                                                          *)
(***************************************************************************)
RECURSIVE AllDeps(_)
AllDeps(ks) ==
    IF ks = << >> THEN {}
    ELSE SeqRange(definitions[Head(ks)].depends_on) \cup AllDeps(Tail(ks))

UndefinedNoDefinedCheck == AllDeps(keys) \ BUILTINS

FindUndefinedSet == (AllDeps(keys) \ DOMAIN definitions) \ BUILTINS

find_undefined ==
    /\ pc = "idle"
    /\ _undefined' = FindUndefinedSet
    /\ result' = [op |-> "find_undefined", value |-> FindUndefinedSet,
                  ref |-> "self._undefined"]
    /\ UNCHANGED << definitions, keys, pc, chain, visited, current, dependents,
                    stack, pvars, evars >>

(***************************************************************************)
(* trace_to_root: one action for the prologue, one per loop iteration.     *)
(***************************************************************************)
CircularMarker(next_sym) == next_sym \o " (CIRCULAR)"

NextSymLast(deps) == deps[Len(deps)]

NextSym(deps) == deps[1]

TraceCall(symbol) ==
    /\ pc = "idle"
    /\ pc' = "trace_to_root"
    /\ chain' = << symbol >>
    /\ visited' = { symbol }
    /\ current' = symbol
    /\ result' = NoResult
    /\ UNCHANGED << definitions, keys, _undefined, dependents, stack, pvars,
                    evars >>

TraceReturn(value) ==
    /\ pc' = "idle"
    /\ result' = [op |-> "trace_to_root", arg |-> chain[1], value |-> value,
                  ref |-> "chain"]
    /\ chain' = << >>
    /\ visited' = {}
    /\ current' = None
    /\ UNCHANGED << definitions, keys, _undefined, dependents, stack, pvars,
                    evars >>

TraceStep ==
    /\ pc = "trace_to_root"
    /\ IF current \notin DOMAIN definitions
       THEN TraceReturn(chain)
       ELSE LET deps == definitions[current].depends_on IN
            IF deps = << >>
            THEN TraceReturn(chain)
            ELSE LET next_sym == NextSym(deps) IN
                 IF next_sym \in visited
                 THEN TraceReturn(Append(chain, CircularMarker(next_sym)))
                 ELSE /\ chain' = Append(chain, next_sym)
                      /\ visited' = visited \cup { next_sym }
                      /\ current' = next_sym
                      /\ UNCHANGED << definitions, keys, _undefined, pc,
                                      dependents, stack, result, pvars,
                                      evars >>

(***************************************************************************)
(* count_dependents: find_dependents is a recursion over the items of the  *)
(* dict; a frame [sym, i] is a call find_dependents(sym) about to look at  *)
(* the i-th item.  One action per item looked at, one per return.          *)
(***************************************************************************)
ShouldVisitNoGuard(sym, name) ==
    sym \in SeqRange(definitions[name].depends_on)

ShouldVisit(sym, name) ==
    /\ sym \in SeqRange(definitions[name].depends_on)
    /\ name \notin dependents

CountCall(symbol) ==
    /\ pc = "idle"
    /\ pc' = "count_dependents"
    /\ dependents' = {}
    /\ stack' = << [sym |-> symbol, i |-> 1] >>
    /\ result' = NoResult
    /\ UNCHANGED << definitions, keys, _undefined, chain, visited, current,
                    pvars, evars >>

Top == stack[Len(stack)]

SetTopIndex(i) == [stack EXCEPT ![Len(stack)].i = i]

CountStep ==
    /\ pc = "count_dependents"
    /\ Top.i <= Len(keys)
    /\ LET name == keys[Top.i] IN
       IF ShouldVisit(Top.sym, name)
       THEN /\ dependents' = dependents \cup { name }
            /\ stack' = Append(SetTopIndex(Top.i + 1), [sym |-> name, i |-> 1])
       ELSE /\ stack' = SetTopIndex(Top.i + 1)
            /\ UNCHANGED dependents
    /\ UNCHANGED << definitions, keys, _undefined, pc, chain, visited, current,
                    result, pvars, evars >>

CountReturn ==
    /\ pc = "count_dependents"
    /\ Top.i > Len(keys)
    /\ IF Len(stack) > 1
       THEN /\ stack' = SubSeq(stack, 1, Len(stack) - 1)
            /\ UNCHANGED << pc, dependents, result >>
       ELSE /\ pc' = "idle"
            /\ result' = [op |-> "count_dependents", arg |-> Top.sym,
                          value |-> Cardinality(dependents),
                          ref |-> "len(dependents)"]
            /\ stack' = << >>
            /\ dependents' = {}
    /\ UNCHANGED << definitions, keys, _undefined, chain, visited, current,
                    pvars, evars >>

Trace == \E symbol \in QueryNames : TraceCall(symbol)

Count == \E symbol \in QueryNames : CountCall(symbol)

(***************************************************************************)
(* The document text.  A token is a piece of notebook text; the document   *)
(* is the concatenation of the texts of its tokens.  Every quoted token    *)
(* carries the comma that follows it in a RowBox list.                     *)
(***************************************************************************)
Tok(k, s) == [k |-> k, s |-> s]

CELL == Tok("cell", "")

RB(s) == Tok("rb", s)

ID(s) == Tok("id", s)

EQ == Tok("eq", "")

SD == Tok("sd", "")

OP == Tok("op", "")

QOPEN == Tok("qopen", "")

QCLOSE == Tok("qclose", "")

CLOSE == Tok("close", "")

NL == Tok("nl", "")

TokText(t) ==
    CASE t.k = "cell"   -> "Cell[BoxData["
      [] t.k = "rb"     -> "RowBox[{\"" \o t.s \o "\","
      [] t.k = "id"     -> "\"" \o t.s \o "\","
      [] t.k = "eq"     -> "\"=\","
      [] t.k = "sd"     -> "\":=\","
      [] t.k = "op"     -> "\"+\","
      [] t.k = "qopen"  -> "\"[\","
      [] t.k = "qclose" -> "\"]\","
      [] t.k = "close"  -> "]"
      [] t.k = "nl"     -> "\n"

TokLen(t) == Len(TokText(t))

(* The tokens that hold a quoted word: "s" *)
HasWord(t) == t.k \in { "rb", "id" }

(* The words of the documents that consist of digits only. *)
NumericWords == { "5" }

(* str.isdigit() *)
isdigit(w) == w \in NumericWords

(* [a-zA-Z_][a-zA-Z0-9_]* : every word of the documents that is not a
   number starts with a letter. *)
IsIdentifier(w) == w \notin NumericWords

(* The change of bracket depth over a token: +1 for each "[" of its text,
   -1 for each "]". *)
DepthDelta(t) ==
    CASE t.k = "cell" -> 2
      [] t.k \in { "rb", "qopen" } -> 1
      [] t.k \in { "close", "qclose" } -> -1
      [] OTHER -> 0

(* The number of characters of tokens 1..n of the document. *)
RECURSIVE TextLen(_)
TextLen(n) == IF n <= 0 THEN 0 ELSE TokLen(content[n]) + TextLen(n - 1)

(* The character offset at which token i of the document starts. *)
Offset(i) == TextLen(i - 1)

RECURSIVE NewlinesBefore(_)
NewlinesBefore(i) ==
    IF i <= 1 THEN 0
    ELSE (IF content[i-1].k = "nl" THEN 1 ELSE 0) + NewlinesBefore(i - 1)

(* pos_to_line, of the offset of token i *)
pos_to_line(i) == NewlinesBefore(i) + 1

(***************************************************************************)
(* The cell scan (lines 176-208).  A span is given by the indices of its   *)
(* first and last token; a span that ends inside a "]", token is taken to  *)
(* the end of that token (the two characters added match no pattern).      *)
(***************************************************************************)
(* The bracket matching loop of lines 185-193: i is the next token, the
   value is the last token of the span. *)
RECURSIVE CellEnd(_, _)
CellEnd(i, depth) ==
    IF i > Len(content) \/ depth <= 0 THEN i - 1
    ELSE CellEnd(i + 1, depth + DepthDelta(content[i]))

(* The depth at which the loop of lines 185-193 ends: 0 when the brackets
   of the cell rebalance, positive when the document ends first. *)
RECURSIVE DepthAtCellEnd(_, _)
DepthAtCellEnd(i, depth) ==
    IF i > Len(content) \/ depth <= 0 THEN depth
    ELSE DepthAtCellEnd(i + 1, depth + DepthDelta(content[i]))

IsInputCell(first, last) ==
    \E i \in first..last : HasWord(content[i]) /\ content[i].s = "Input"

InRangeNoUpperBound(cell_idx, range) ==
    \/ range = << >>
    \/ ~ (cell_idx < range[1])

(* lines 203-206: the cell is kept unless a range is given and excludes it *)
InRange(cell_idx, range) ==
    \/ range = << >>
    \/ ~ (cell_idx < range[1] \/ cell_idx > range[2])

RECURSIVE ScanCells(_, _, _, _)
ScanCells(j, cell_idx, acc, range) ==
    IF j > Len(content) THEN acc
    ELSE IF content[j].k # "cell" THEN ScanCells(j + 1, cell_idx, acc, range)
    ELSE LET last == CellEnd(j + 1, 2) IN
         IF ~ IsInputCell(j, last) THEN ScanCells(j + 1, cell_idx, acc, range)
         ELSE IF InRange(cell_idx + 1, range)
              THEN ScanCells(j + 1, cell_idx + 1,
                             Append(acc, << cell_idx + 1, j, last >>), range)
              ELSE ScanCells(j + 1, cell_idx + 1, acc, range)

(***************************************************************************)
(* The statement extraction of one input cell (lines 214-277).             *)
(***************************************************************************)
SafetyLimit == 1000

DepCap == 10

(* lines 226-236: the matching "]" of the RowBox that starts at token m,
   looked for inside the cell (to token last) and over at most SafetyLimit + 1
   characters; a token the limit cuts is left out of the span. *)
RECURSIVE RowBoxEndFrom(_, _, _, _, _)
RowBoxEndFrom(i, depth, last, pos, rowbox_start) ==
    IF i > last \/ depth <= 0 THEN i - 1
    ELSE IF pos + TokLen(content[i]) - rowbox_start > SafetyLimit + 1
         THEN i - 1
         ELSE RowBoxEndFrom(i + 1, depth + DepthDelta(content[i]), last,
                            pos + TokLen(content[i]), rowbox_start)

(* line 227: pos starts at m.end(), the offset of token i *)
RowBoxEnd(i, depth, last, rowbox_start) ==
    RowBoxEndFrom(i, depth, last, Offset(i), rowbox_start)

HasKind(first, last, k) == \E i \in first..last : content[i].k = k

FirstOfKind(first, last, k) ==
    CHOOSE i \in first..last :
        content[i].k = k /\ \A j \in first..(i-1) : content[j].k # k

KeepDepNoDedup(dep, sym, deps) ==
    /\ dep \notin BUILTINS
    /\ dep # sym
    /\ ~ isdigit(dep)

(* lines 254-255 *)
KeepDep(dep, sym, deps) ==
    /\ dep \notin BUILTINS
    /\ dep # sym
    /\ dep \notin SeqRange(deps)
    /\ ~ isdigit(dep)

(* lines 252-256: the identifiers quoted in tokens i..last, in order *)
RECURSIVE CollectDeps(_, _, _, _)
CollectDeps(i, last, sym, deps) ==
    IF i > last THEN deps
    ELSE IF /\ HasWord(content[i])
            /\ IsIdentifier(content[i].s)
            /\ KeepDep(content[i].s, sym, deps)
         THEN CollectDeps(i + 1, last, sym, Append(deps, content[i].s))
         ELSE CollectDeps(i + 1, last, sym, deps)

FirstN(seq, n) == SubSeq(seq, 1, IF Len(seq) < n THEN Len(seq) ELSE n)

(* lines 222-277 for the candidate at token m of a cell that ends at token
   last: the definitions it adds to all_definitions (none or one). *)
CandidateDefinitions(m, last) ==
    LET sym == content[m].s
        end == RowBoxEnd(m + 1, 1, last, Offset(m))
        is_assignment == HasKind(m, end, "eq") /\ ~ HasKind(m, end, "sd")
        is_delayed == HasKind(m, end, "sd")
    IN  IF is_assignment /\ sym \notin BUILTINS
        THEN << [ symbol |-> sym,
                  pos |-> Offset(m),
                  depends_on |->
                      FirstN(CollectDeps(FirstOfKind(m, end, "eq") + 1, end,
                                         sym, << >>), DepCap),
                  type |-> "variable",
                  line |-> pos_to_line(m) ] >>
        ELSE IF is_delayed /\ sym \notin BUILTINS
        THEN << [ symbol |-> sym,
                  pos |-> Offset(m),
                  depends_on |-> << >>,
                  type |-> "function",
                  line |-> pos_to_line(m) ] >>
        ELSE << >>

(* line 219: the tokens matched by rowbox_pattern *)
IsCandidate(m) == content[m].k = "rb" /\ IsIdentifier(content[m].s)

RECURSIVE CellDefinitions(_, _)
CellDefinitions(m, last) ==
    IF m > last THEN << >>
    ELSE IF IsCandidate(m)
         THEN CandidateDefinitions(m, last) \o CellDefinitions(m + 1, last)
         ELSE CellDefinitions(m + 1, last)

(***************************************************************************)
(* The definition table (lines 279-294).                                   *)
(***************************************************************************)
RECURSIVE InsertByPos(_, _)
InsertByPos(sorted, d) ==
    IF sorted = << >> THEN << d >>
    ELSE IF Head(sorted).pos <= d.pos
         THEN << Head(sorted) >> \o InsertByPos(Tail(sorted), d)
         ELSE << d >> \o sorted

RECURSIVE InsertByPosDescending(_, _)
InsertByPosDescending(sorted, d) ==
    IF sorted = << >> THEN << d >>
    ELSE IF Head(sorted).pos >= d.pos
         THEN << Head(sorted) >> \o InsertByPosDescending(Tail(sorted), d)
         ELSE << d >> \o sorted

RECURSIVE SortByPosReversed(_)
SortByPosReversed(defs) ==
    IF defs = << >> THEN << >>
    ELSE InsertByPosDescending(SortByPosReversed(SubSeq(defs, 1, Len(defs) - 1)),
                               defs[Len(defs)])

RECURSIVE SortedByPos(_)
SortedByPos(defs) ==
    IF defs = << >> THEN << >>
    ELSE InsertByPos(SortedByPos(SubSeq(defs, 1, Len(defs) - 1)), defs[Len(defs)])

(* line 280: list.sort(key=pos), a stable sort *)
SortByPos(defs) == SortedByPos(defs)

TableEntry(i, defn) ==
    [ cell |-> i, depends_on |-> defn.depends_on, type |-> defn.type,
      line |-> defn.line ]

TableAfterOverwrite(table, i, defn) == DictSet(table, defn.symbol, TableEntry(i, defn))

(* lines 285-292: one iteration of the last loop *)
TableAfter(table, i, defn) ==
    IF defn.symbol \notin DOMAIN table
    THEN DictSet(table, defn.symbol, TableEntry(i, defn))
    ELSE table

ScanInputCells ==
    /\ phase = "scan"
    /\ input_cells' = ScanCells(1, 0, << >>, cell_range)
    /\ phase' = "extract"
    /\ UNCHANGED << content, cell_range, all_definitions, idx, symbols, gvars,
                    evars >>

ExtractCell ==
    /\ phase = "extract"
    /\ idx < Len(input_cells)
    /\ LET cell == input_cells[idx + 1] IN
       all_definitions' = all_definitions \o CellDefinitions(cell[2], cell[3])
    /\ idx' = idx + 1
    /\ UNCHANGED << content, cell_range, phase, input_cells, symbols, gvars,
                    evars >>

SortDefinitions ==
    /\ phase = "extract"
    /\ idx = Len(input_cells)
    /\ all_definitions' = SortByPos(all_definitions)
    /\ phase' = "assign"
    /\ idx' = 0
    /\ UNCHANGED << content, cell_range, input_cells, symbols, gvars, evars >>

AssignStep ==
    /\ phase = "assign"
    /\ idx < Len(all_definitions)
    /\ symbols' = TableAfter(symbols, idx + 1, all_definitions[idx + 1])
    /\ idx' = idx + 1
    /\ UNCHANGED << content, cell_range, phase, input_cells, all_definitions,
                    gvars, evars >>

ParseReturn ==
    /\ phase = "assign"
    /\ idx = Len(all_definitions)
    /\ phase' = "done"
    /\ UNCHANGED << content, cell_range, input_cells, all_definitions, idx,
                    symbols, gvars, evars >>

(***************************************************************************)
(* Properties of the dependency graph (specification Spec).                *)
(***************************************************************************)
DepsOf(x) == IF x \in DOMAIN definitions THEN definitions[x].depends_on ELSE << >>

(* The defined symbols that name a member of S in their depends_on list. *)
DirectDependents(S) ==
    { n \in DOMAIN definitions : SeqRange(definitions[n].depends_on) \cap S # {} }

RECURSIVE GrowDependents(_)
GrowDependents(R) ==
    IF DirectDependents(R) \subseteq R THEN R
    ELSE GrowDependents(R \cup DirectDependents(R))

(* The defined symbols from which s is reached by one or more edges. *)
TransitiveDependents(s) == GrowDependents(DirectDependents({s}))

CountReturned == pc = "idle" /\ result.op = "count_dependents"

TraceReturned == pc = "idle" /\ result.op = "trace_to_root"

UndefinedReturned == pc = "idle" /\ result.op = "find_undefined"

(* C4: count_dependents(s) is the number of defined symbols other than s
   from which s is reached by one or more depends_on edges. *)
C4_CountExcludesSelf ==
    CountReturned =>
        result.value = Cardinality(TransitiveDependents(result.arg) \ {result.arg})

(* C5: the chain returned by trace_to_root(s) starts with s, follows the
   first entry of each depends_on list, and ends at the first entry with no
   definition or no dependencies, or, when the next symbol was already
   visited, with one more entry: the marker of that symbol. *)
FollowsFirst(ch, n) ==
    /\ \A i \in 2..n : DepsOf(ch[i-1]) # << >> /\ ch[i] = DepsOf(ch[i-1])[1]
    /\ \A i, j \in 1..n : ch[i] = ch[j] => i = j

C5_TraceFollowsFirstDependency ==
    TraceReturned =>
        LET ch == result.value
            n == Len(ch)
        IN  /\ n >= 1
            /\ ch[1] = result.arg
            /\ \/ /\ FollowsFirst(ch, n)
                  /\ DepsOf(ch[n]) = << >>
               \/ /\ n >= 2
                  /\ FollowsFirst(ch, n - 1)
                  /\ DepsOf(ch[n-1]) # << >>
                  /\ DepsOf(ch[n-1])[1] \in { ch[i] : i \in 1..(n-1) }
                  /\ ch[n] = DepsOf(ch[n-1])[1] \o " (CIRCULAR)"

C5_Witness ==
    /\ TraceReturned
    /\ result.value = << "a", "b", "a (CIRCULAR)" >>
    /\ definitions["a"].depends_on = << "b", "u" >>
    /\ definitions["b"].depends_on = << "a", "b" >>

(* C6: find_undefined returns exactly the names that occur in some
   depends_on list, are not defined and are not builtins. *)
C6_FindUndefinedExact ==
    UndefinedReturned =>
        result.value =
            { x \in DepNames :
                /\ \E n \in DOMAIN definitions :
                      \E i \in 1..Len(definitions[n].depends_on) :
                          definitions[n].depends_on[i] = x
                /\ x \notin DOMAIN definitions
                /\ x \notin BUILTINS }

C6_Witness ==
    /\ UndefinedReturned
    /\ result.value = { "u" }
    /\ DOMAIN definitions = { "a", "b" }
    /\ definitions["a"].depends_on = << "b", "u" >>

(* C7: trace_to_root and count_dependents terminate on every graph: each
   step of either loop lowers a natural-number measure, a running query can
   always take its next step, and count_dependents enters find_dependents
   for a symbol only when that symbol is not yet counted. *)
TraceUniverse ==
    (DOMAIN definitions) \cup AllDeps(keys) \cup SeqRange(chain)

TraceMeasure ==
    IF pc = "trace_to_root" THEN 1 + Cardinality(TraceUniverse \ visited) ELSE 0

RECURSIVE FrameWeights(_)
FrameWeights(st) ==
    IF st = << >> THEN 0
    ELSE (Len(keys) + 2 - Head(st).i) + FrameWeights(Tail(st))

CountMeasure ==
    IF pc = "count_dependents"
    THEN 1 + (Len(keys) - Cardinality(dependents)) * (Len(keys) + 2)
           + FrameWeights(stack)
    ELSE 0

QueryStepDecreases ==
    /\ pc = "trace_to_root" => TraceMeasure' < TraceMeasure
    /\ pc = "count_dependents" =>
          /\ CountMeasure' < CountMeasure
          /\ CountMeasure' >= 0
          /\ Len(stack') > Len(stack) =>
                /\ stack'[Len(stack')].sym \notin dependents
                /\ dependents' = dependents \cup { stack'[Len(stack')].sym }
          /\ Len(stack') <= Len(stack) => dependents' \in { dependents, {} }

QueryCanStep ==
    /\ pc = "trace_to_root" => ENABLED TraceStep
    /\ pc = "count_dependents" => ENABLED (CountStep \/ CountReturn)

C7_QueriesTerminate == [][QueryStepDecreases]_vars /\ []QueryCanStep

C7_Witness ==
    /\ pc = "count_dependents"
    /\ Len(stack) = 3
    /\ stack[1].sym \in dependents
    /\ \E n \in DOMAIN definitions : n \in SeqRange(definitions[n].depends_on)

(* C11: for a symbol s with no definition in the graph, count_dependents(s)
   returns 0 and trace_to_root(s) returns the one-element sequence << s >>,
   also when s occurs in the depends_on list of defined symbols. *)
C11_UndefinedSymbolQueries ==
    /\ (CountReturned /\ result.arg \notin DOMAIN definitions) => result.value = 0
    /\ (TraceReturned /\ result.arg \notin DOMAIN definitions) =>
          result.value = << result.arg >>

(***************************************************************************)
(* The documents parsed.  A table document is a sequence of at most        *)
(* MaxCells cells, each one of CellTexts; a wide document is one input     *)
(* cell holding one assignment with up to MaxDistinct distinct identifiers *)
(* on its right-hand side, followed by up to MaxTail more tokens.          *)
(***************************************************************************)
MaxCells == 2

MaxDistinct == 11

MaxTail == 2

(* name = rhs, as RowBox[{"name", "=", rhs}] *)
Immediate(name, rhs) == << RB(name), EQ >> \o rhs \o << CLOSE >>

(* name[x_] := body, as RowBox[{"name", "[", "x_", "]", ":=", body}] *)
Deferred(name, body) ==
    << RB(name), QOPEN, ID("x_"), QCLOSE, SD >> \o body \o << CLOSE >>

CellBodies ==
    { << >>,
      \* x = 5; y = x + x
      Immediate("x", << ID("5") >>) \o Immediate("y", << ID("x"), OP, ID("x") >>),
      \* y = Sin 5, a line break, x = y
      Immediate("y", << ID("Sin"), ID("5") >>) \o << NL >>
          \o Immediate("x", << ID("y") >>),
      \* y[x_] := x; Sin = 5
      Deferred("y", << ID("x") >>) \o Immediate("Sin", << ID("5") >>),
      \* f[x_] := (y = x)
      Deferred("f", Immediate("y", << ID("x") >>)),
      \* x = (y = 5); x + y
      Immediate("x", Immediate("y", << ID("5") >>)) \o << RB("x"), OP, ID("y"), CLOSE >> }

(* Cell[BoxData[body], "Input"] *)
InputCell(body) == << CELL >> \o body \o << CLOSE, ID("Input"), CLOSE >>

(* Cell[BoxData[body], "Output"] *)
OutputCell(body) == << CELL >> \o body \o << CLOSE, ID("Output"), CLOSE >>

(* Cell[BoxData[body, "Input"] : the brackets of the cell never rebalance *)
OpenCell(body) == << CELL >> \o body \o << ID("Input"), CLOSE >>

CellTexts ==
    { InputCell(b) : b \in CellBodies } \cup { OutputCell(b) : b \in CellBodies }
        \cup { OpenCell(b) : b \in CellBodies }

RECURSIVE Concat(_)
Concat(seqs) == IF seqs = << >> THEN << >> ELSE Head(seqs) \o Concat(Tail(seqs))

TableDocuments == { Concat(cs) : cs \in SeqsUpTo(CellTexts, MaxCells) }

FreshNames ==
    << "d1", "d2", "d3", "d4", "d5", "d6", "d7", "d8", "d9", "d10", "d11",
       "d12", "d13", "d14" >>

DistinctIds(k) == [ i \in 1..k |-> ID(FreshNames[i]) ]

TailToks == { ID("d1"), ID("x"), ID("Sin"), ID("5"), ID("z") }

WideDocuments ==
    { InputCell(Immediate("x", DistinctIds(k) \o tail)) :
        k \in 0..MaxDistinct, tail \in SeqsUpTo(TailToks, MaxTail) }

(* cell_range: none, or an inclusive pair *)
CellRanges == { << >> } \cup { << a, b >> : a, b \in 1..MaxCells }

ParseInit ==
    /\ \/ content \in TableDocuments /\ cell_range \in CellRanges
       \/ content \in WideDocuments /\ cell_range = << >>
    /\ phase = "scan"
    /\ input_cells = << >>
    /\ all_definitions = << >>
    /\ idx = 0
    /\ symbols = << >>

(***************************************************************************)
(* Properties of parse_notebook_symbols (specification SpecParse).         *)
(***************************************************************************)
ParseDone == phase = "done"

(* The collected definitions of symbol s, as indices of all_definitions. *)
DefsOf(s) == { i \in 1..Len(all_definitions) : all_definitions[i].symbol = s }

(* The smallest document offset at which s is defined. *)
FirstPos(s) ==
    CHOOSE p \in { all_definitions[i].pos : i \in DefsOf(s) } :
        \A i \in DefsOf(s) : p <= all_definitions[i].pos

CellNumbers == { symbols[s].cell : s \in DOMAIN symbols }

(* C1: the sequence indices of the returned table are exactly 1..N, N the
   number of symbols in the table. *)
C1_IndicesArePermutation ==
    ParseDone => CellNumbers = 1..Cardinality(DOMAIN symbols)

(* C2: of two symbols in the returned table, the one first defined at the
   smaller document offset has the smaller sequence index. *)
C2_IndexOrderIsOffsetOrder ==
    ParseDone =>
        \A A, B \in DOMAIN symbols :
            (A # B /\ FirstPos(A) < FirstPos(B)) => symbols[A].cell < symbols[B].cell

(* The two input cells overlap, each holds definitions, and the table has
   three symbols. *)
C2_Witness ==
    /\ ParseDone
    /\ Cardinality(DOMAIN symbols) = 3
    /\ Len(input_cells) = 2
    /\ input_cells[2][2] <= input_cells[1][3]
    /\ \E i, j \in 1..Len(all_definitions) :
          i < j /\ all_definitions[i].pos = all_definitions[j].pos

(* C3: the entry of a symbol carries the type, depends_on and sequence
   index of its definition with the smallest document offset, and a later
   definition of a symbol already in the table leaves the table unchanged. *)
FirstDefinitionKept ==
    phase \in { "assign", "done" } =>
        \A s \in DOMAIN symbols :
            \A i \in DefsOf(s) :
                all_definitions[i].pos = FirstPos(s) =>
                    /\ symbols[s].type = all_definitions[i].type
                    /\ symbols[s].depends_on = all_definitions[i].depends_on
                    /\ symbols[s].cell =
                          1 + Cardinality({ j \in 1..Len(all_definitions) :
                                              all_definitions[j].pos < FirstPos(s) })

RedefinitionIgnored ==
    (/\ phase = "assign"
     /\ idx < Len(all_definitions)
     /\ all_definitions[idx + 1].symbol \in DOMAIN symbols)
        => symbols' = symbols

C3_FirstDefinitionWins == []FirstDefinitionKept /\ [][RedefinitionIgnored]_vars

(* A symbol defined as a function and, later, as a variable with
   dependencies. *)
C3_Witness ==
    /\ ParseDone
    /\ \E s \in DOMAIN symbols :
          \E i, j \in DefsOf(s) :
              /\ all_definitions[i].pos < all_definitions[j].pos
              /\ all_definitions[i].type # all_definitions[j].type
              /\ all_definitions[i].depends_on # all_definitions[j].depends_on

(* The right-hand side of the assignment candidate at token m of a cell
   ending at token last: the tokens after the first "=" of its span. *)
RhsFirst(m, last) ==
    FirstOfKind(m, RowBoxEnd(m + 1, 1, last, Offset(m)), "eq") + 1

RhsLast(m, last) == RowBoxEnd(m + 1, 1, last, Offset(m))

RhsIdentifierAt(m, last) ==
    { i \in RhsFirst(m, last)..RhsLast(m, last) :
        HasWord(content[i]) /\ IsIdentifier(content[i].s) }

(* The identifiers among the tokens ids that the claim is about: not a
   builtin, not the assigned name. *)
ReferencedIn(ids, name) == ({ content[i].s : i \in ids } \ BUILTINS) \ { name }

Referenced(m, last) == ReferencedIn(RhsIdentifierAt(m, last), content[m].s)

FirstIndexOf(X, ids) ==
    CHOOSE i \in ids :
        content[i].s = X /\ \A j \in ids : content[j].s = X => i <= j

(* The rank of X among the referenced identifiers, by first occurrence. *)
RankOf(X, ids, name) ==
    LET first == FirstIndexOf(X, ids) IN
    Cardinality({ Y \in ReferencedIn(ids, name) : FirstIndexOf(Y, ids) <= first })

CountIn(seq, x) == Cardinality({ i \in 1..Len(seq) : seq[i] = x })

(* The immediate assignments extracted: << m, last >> for each candidate of
   an input cell that yields a variable definition. *)
ExtractedAssignments ==
    UNION { { << m, input_cells[c][3] >> :
                m \in { k \in input_cells[c][2]..input_cells[c][3] :
                          /\ IsCandidate(k)
                          /\ LET defs == CandidateDefinitions(k, input_cells[c][3])
                             IN  defs # << >> /\ defs[1].type = "variable" } } :
            c \in 1..Len(input_cells) }

(* C8 as stated: every referenced identifier occurs exactly once in the
   depends_on of the definition. *)
C8_EveryIdentifierExactlyOnce ==
    ParseDone =>
        \A ml \in ExtractedAssignments :
            \A X \in Referenced(ml[1], ml[2]) :
                CountIn(CandidateDefinitions(ml[1], ml[2])[1].depends_on, X) = 1

(* C8, amended: every referenced identifier occurs at most once in the
   depends_on of the definition, and exactly once if and only if it is among
   the first DepCap referenced identifiers, by first occurrence; the
   definition is one of those collected. *)
C8_OnceWithinCap ==
    ParseDone =>
        \A ml \in ExtractedAssignments :
            LET d == CandidateDefinitions(ml[1], ml[2])[1]
                ids == RhsIdentifierAt(ml[1], ml[2])
                name == content[ml[1]].s
            IN
            /\ \E i \in 1..Len(all_definitions) : all_definitions[i] = d
            /\ \A X \in ReferencedIn(ids, name) :
                  /\ CountIn(d.depends_on, X) <= 1
                  /\ CountIn(d.depends_on, X) = 1 <=> RankOf(X, ids, name) <= DepCap

(* An assignment whose right-hand side repeats an identifier and names more
   than DepCap distinct ones. *)
C8_Witness ==
    /\ ParseDone
    /\ \E ml \in ExtractedAssignments :
          /\ Cardinality(Referenced(ml[1], ml[2])) > DepCap
          /\ Len(CandidateDefinitions(ml[1], ml[2])[1].depends_on) = DepCap
          /\ \E i, j \in RhsIdentifierAt(ml[1], ml[2]) :
                i # j /\ content[i].s = content[j].s
                /\ content[i].s \in Referenced(ml[1], ml[2])

(* The input cells of the document, numbered as the scan numbers them, when
   no range is given. *)
AllInputCells == ScanCells(1, 0, << >>, << >>)

RequestedCells ==
    { c \in SeqRange(AllInputCells) :
        cell_range = << >> \/ (cell_range[1] <= c[1] /\ c[1] <= cell_range[2]) }

LiesIn(pos, c) == Offset(c[2]) <= pos /\ pos < Offset(c[3] + 1)

(* C10: every symbol of the returned table has a definition inside an input
   cell whose 1-based index is in the requested range, and the sequence
   indices of the returned symbols are ordered as their document offsets. *)
C10_OnlyRequestedCells ==
    ParseDone =>
        LET requested == RequestedCells IN
        /\ \A s \in DOMAIN symbols :
              /\ DefsOf(s) # {}
              /\ \A i \in DefsOf(s) :
                    \E c \in requested : LiesIn(all_definitions[i].pos, c)
        /\ \A A, B \in DOMAIN symbols :
              FirstPos(A) < FirstPos(B) => symbols[A].cell < symbols[B].cell

(* Range (1,1) on a document with two disjoint input cells that both hold
   definitions: a symbol defined in cell 2 only is not in the table. *)
C10_Witness ==
    /\ ParseDone
    /\ cell_range = << 1, 1 >>
    /\ Len(AllInputCells) = 2
    /\ AllInputCells[1][3] < AllInputCells[2][2]
    /\ symbols # << >>
    /\ \E m \in AllInputCells[2][2]..AllInputCells[2][3] :
          /\ IsCandidate(m)
          /\ CandidateDefinitions(m, AllInputCells[2][3]) # << >>
          /\ content[m].s \notin DOMAIN symbols

(* C13: no query changes a field of the graph (the definitions table, its
   order, _undefined), and no value a query returns is an alias of a field
   of the graph. *)
GraphFields == << definitions, keys, _undefined >>

InternalStorage == { "self.definitions", "self._undefined" }

IsQueryStep == ~ (pc = "idle" /\ pc' = "idle" /\ result' = NoResult)

QueryLeavesFields == IsQueryStep => UNCHANGED GraphFields

ReturnsOwnedValue == result # NoResult => result.ref \notin InternalStorage

C13_QueriesDoNotMutate == [][QueryLeavesFields]_vars /\ []ReturnsOwnedValue

(* The cell markers of the document, and those whose brackets never
   rebalance before the end of the document. *)
CellMarkers == { j \in 1..Len(content) : content[j].k = "cell" }

Unbalanced(j) == DepthAtCellEnd(j + 1, 2) > 0

BalancedInputCells ==
    { j \in CellMarkers : ~ Unbalanced(j) /\ IsInputCell(j, CellEnd(j + 1, 2)) }

(* C12: a cell whose brackets never rebalance before the end of the
   document is discarded: no retained input cell starts at its marker, every
   definition collected lies in a cell whose brackets rebalance, and the
   cells that rebalance are still scanned (with no range given, each input
   cell among them is retained). *)
C12_UnbalancedCellDiscarded ==
    phase \in { "extract", "assign", "done" } =>
        /\ \A j \in CellMarkers :
              Unbalanced(j) => \A c \in SeqRange(input_cells) : c[2] # j
        /\ \A i \in 1..Len(all_definitions) :
              \E j \in BalancedInputCells :
                  LiesIn(all_definitions[i].pos, << 0, j, CellEnd(j + 1, 2) >>)
        /\ cell_range = << >> =>
              \A j \in BalancedInputCells :
                  \E c \in SeqRange(input_cells) : c[2] = j

(***************************************************************************)
(* extract_definition (lines 45-83), on an expression given as tokens.     *)
(***************************************************************************)
MaxBody == 3

(* \s* : the first token from i on that is not white space *)
RECURSIVE NextNonSpace(_, _)
NextNonSpace(e, i) ==
    IF i > Len(e) \/ e[i].k # "nl" THEN i ELSE NextNonSpace(e, i + 1)

(* line 53: RowBox\[\{"(\w+)",\s*"=", matches at token i *)
SimpleMatchAt(e, i) ==
    /\ e[i].k = "rb"
    /\ NextNonSpace(e, i + 1) <= Len(e)
    /\ e[NextNonSpace(e, i + 1)].k = "eq"

(* line 74: RowBox\[\{"(\w+)",\s*"\[",.*?":=" matches at token i; the dot
   matches no line break *)
FuncMatchAt(e, i) ==
    /\ e[i].k = "rb"
    /\ NextNonSpace(e, i + 1) <= Len(e)
    /\ e[NextNonSpace(e, i + 1)].k = "qopen"
    /\ \E k \in (NextNonSpace(e, i + 1) + 1)..Len(e) :
          /\ e[k].k = "sd"
          /\ \A l \in (NextNonSpace(e, i + 1) + 1)..(k - 1) : e[l].k # "nl"

(* re.search: the leftmost match *)
Leftmost(S) == CHOOSE i \in S : \A j \in S : i <= j

(* lines 58-65 *)
SimpleDeps(e, symbol) ==
    LET rhs_start == Leftmost({ i \in 1..Len(e) : e[i].k = "eq" }) + 1
        candidates == { e[i].s : i \in { j \in rhs_start..Len(e) : HasWord(e[j]) } }
    IN  ({ c \in candidates : ~ isdigit(c) } \ BUILTINS) \ { symbol }

(* list(deps): the elements of a set in some order *)
Orderings(S) ==
    { f \in [1..Cardinality(S) -> S] : \A i, j \in DOMAIN f : f[i] = f[j] => i = j }

SimpleMatches(e) == { i \in 1..Len(e) : SimpleMatchAt(e, i) }

FuncMatches(e) == { i \in 1..Len(e) : FuncMatchAt(e, i) }

extract_definition ==
    /\ expr # << >>
    /\ extracted = NoResult
    /\ IF SimpleMatches(expr) # {}
       THEN LET symbol == expr[Leftmost(SimpleMatches(expr))].s IN
            \E depends_on \in Orderings(SimpleDeps(expr, symbol)) :
                extracted' = [ op |-> "extract_definition",
                               value |-> [ symbol |-> symbol,
                                           depends_on |-> depends_on,
                                           type |-> "variable" ] ]
       ELSE IF FuncMatches(expr) # {}
       THEN extracted' = [ op |-> "extract_definition",
                           value |-> [ symbol |-> expr[Leftmost(FuncMatches(expr))].s,
                                       depends_on |-> << >>,
                                       type |-> "function" ] ]
       ELSE extracted' = [ op |-> "extract_definition",
                           value |-> [ symbol |-> None, depends_on |-> << >>,
                                       type |-> None ] ]
    /\ UNCHANGED << expr, gvars, pvars >>

(* The expressions handed to extract_definition: name = body and
   name[x_] := body, the body any MaxBody tokens of ExprToks. *)
ExprToks == { ID("x"), ID("y"), ID("5"), ID("Sin"), RB("y"), EQ, NL }

Expressions ==
    { Immediate(n, b) : n \in { "x", "Sin" }, b \in SeqsUpTo(ExprToks, MaxBody) }
        \cup { Deferred("f", b) : b \in SeqsUpTo(ExprToks, MaxBody) }

ExtractInit ==
    /\ expr \in Expressions
    /\ extracted = NoResult

(***************************************************************************)
(* Properties of extract_definition (specification SpecExtract).           *)
(***************************************************************************)
(* name[x_] := body *)
IsDeferredStatement(e) ==
    /\ Len(e) >= 6
    /\ e[1].k = "rb"
    /\ SubSeq(e, 2, 5) = << QOPEN, ID("x_"), QCLOSE, SD >>
    /\ e[Len(e)] = CLOSE

(* C9: a deferred-assignment statement f[params] := body yields a definition
   of f of kind function with empty depends_on, whatever the body holds, and
   an expression holding the deferred-assignment token is never classified
   as a variable. *)
C9_DeferredIsFunction ==
    extracted.op = "extract_definition" =>
        /\ IsDeferredStatement(expr) =>
              /\ extracted.value.symbol = expr[1].s
              /\ extracted.value.type = "function"
              /\ extracted.value.depends_on = << >>
        /\ (\E i \in 1..Len(expr) : expr[i].k = "sd") =>
              extracted.value.type # "variable"

ParseIdle ==
    /\ content = << >>
    /\ cell_range = << >>
    /\ phase = "off"
    /\ input_cells = << >>
    /\ all_definitions = << >>
    /\ idx = 0
    /\ symbols = << >>

ExtractIdle ==
    /\ expr = << >>
    /\ extracted = NoResult

Init == GraphInit /\ ParseIdle /\ ExtractIdle

Next ==
    \/ AddDefinition
    \/ find_undefined
    \/ Trace
    \/ TraceStep
    \/ Count
    \/ CountStep
    \/ CountReturn

Spec == Init /\ [][Next]_vars

InitParse == GraphInit /\ ParseInit /\ ExtractIdle

NextParse ==
    \/ ScanInputCells
    \/ ExtractCell
    \/ SortDefinitions
    \/ AssignStep
    \/ ParseReturn

SpecParse == InitParse /\ [][NextParse]_vars

InitExtract == GraphInit /\ ParseIdle /\ ExtractInit

NextExtract == extract_definition

SpecExtract == InitExtract /\ [][NextExtract]_vars

====
